---- MODULE Spec2Model ----
(***************************************************************************)
(* Function-to-node compilation of hamilton/function_modifiers.py.         *)
(*                                                                         *)
(* Python values are modelled as tagged pairs <<type name, repr>>, Python  *)
(* str keys (parameter names, node names, tag keys, config keys) as TLA+   *)
(* strings, a dict whose iteration order matters as a sequence of          *)
(* <<key, value>> pairs with distinct keys, and a dict that is only looked *)
(* up by key as a TLA+ function.  An exception is modelled by its class    *)
(* name in the variable err.                                               *)
(***************************************************************************)
EXTENDS Integers, Sequences, FiniteSets, TLC

VARIABLES
    fn,             \* the function definition being compiled
    configuration,  \* the configuration of this compilation run
    nodes,          \* the nodes produced so far for fn
    pc,             \* position in the pipeline resolve/generate/expand/decorate
    err,            \* class name of the exception that ended compilation, or "none"
    last,           \* the decorator applied by the last step, its input and its output
    tagged          \* the tag decorators applied so far, innermost first

vars == <<fn, configuration, nodes, pc, err, last, tagged>>

(***************************************************************************)
(* Bounds of the model.                                                    *)
(***************************************************************************)
MaxPairs == 2       \* keyword arguments per config.when* call
MaxGroupLen == 1    \* elements per value group of when_in / when_not_in

(***************************************************************************)
(* Python values and built-ins.                                            *)
(***************************************************************************)
None == <<"NoneType", "None">>
Str(s) == <<"str", s>>

Range(s) == {s[i] : i \in DOMAIN s}

\* the sequences over S of length at most n
SeqsUpTo(S, n) == UNION {[1..m -> S] : m \in 0..n}

\* keyword arguments: pairs with pairwise distinct keys
DictKeys(d) == {d[i][1] : i \in DOMAIN d}
IsDict(d) == \A i, j \in DOMAIN d : d[i][1] = d[j][1] => i = j
Dicts(K, V, n) == {d \in SeqsUpTo(K \X V, n) : IsDict(d)}

\* configuration.get(key): None when the key is missing
DictGet(d, key) == IF key \in DOMAIN d THEN d[key] ELSE None

\* x in s for two Python strings: s has x as a substring
IsSubstring(x, s) ==
    \E i \in 0..(Len(s) - Len(x)) : SubSeq(s, i + 1, i + Len(x)) = x

\* `x in group`: a list compares its elements with ==, a str accepts only a
\* str on the left and tests for a substring.  "True", "False" or "TypeError".
PyIn(x, group) ==
    IF group[1] = "str"
    THEN IF x[1] # "str" THEN "TypeError"
         ELSE IF IsSubstring(x[2], group[2]) THEN "True" ELSE "False"
    ELSE IF \E i \in DOMAIN group[2] : group[2][i] = x THEN "True" ELSE "False"

PyNot(b) == IF b = "TypeError" THEN b ELSE IF b = "True" THEN "False" ELSE "True"

\* all(test(item) for item in items): stops at the first false item, and an
\* exception raised by a test that is reached propagates
RECURSIVE PyAll(_, _, _)
PyAll(results, i, n) ==
    IF i > n THEN "True"
    ELSE IF results[i] = "True" THEN PyAll(results, i + 1, n)
    ELSE results[i]

(***************************************************************************)
(* Function definitions.                                                   *)
(***************************************************************************)
FnNames == {"f", "f__v2", "a__b__c", "f__"}
ParamLists == {<<"a">>, <<"a", "b">>, <<"a", "output_name">>}
ParamType == [a |-> "int", b |-> "str", output_name |-> "str"]
ModuleName == "my_module"

\* return annotations: classes, and the parameterized generics of typing
FnReturns == {"int", "DataFrame", "MyDataFrame", "dict", "Dict[str, int]", "List[int]"}
Generics == {"Dict[str, int]", "List[int]"}

\* typing_inspect.get_origin of a generic
Origin == [t \in Generics |-> IF t = "Dict[str, int]" THEN "dict" ELSE "list"]

\* the direct base class of a class
BaseClass == [MyDataFrame |-> "DataFrame", bool |-> "int"]

\* issubclass(cls, classinfo): "True", "False", or "TypeError" when an
\* argument is a parameterized generic and not a class
issubclass(cls, classinfo) ==
    IF cls \in Generics \/ classinfo \in Generics THEN "TypeError"
    ELSE IF cls = classinfo THEN "True"
    ELSE IF cls \in DOMAIN BaseClass /\ BaseClass[cls] = classinfo THEN "True"
    ELSE "False"

\* __doc__ is None for a function without a docstring; a documentation
\* string is the sequence of its parts, a part being a piece of text or a
\* {placeholder} field of str.format
FnDocs == {None, <<>>, <<"{a}">>}
IsField(part) == Len(part) >= 2 /\ SubSeq(part, 1, 1) = "{"
FieldName(part) == SubSeq(part, 2, Len(part) - 1)
Fields(doc) == {FieldName(doc[i]) : i \in {j \in DOMAIN doc : IsField(doc[j])}}

\* the body of a function after its optional docstring: one statement
Bodies == {"pass", "return 5", "x = 1", "return a"}

Fns == [name : FnNames, params : ParamLists, ret : FnReturns, doc : FnDocs,
        body : Bodies, module : {ModuleName}]

\* s.endswith('__')
EndsWithDunder(s) == Len(s) >= 2 /\ SubSeq(s, Len(s) - 1, Len(s)) = "__"

\* positions where a double underscore starts
DunderAt(s) == {i \in 1..(Len(s) - 1) : SubSeq(s, i, i + 1) = "__"}

Min(S) == CHOOSE x \in S : \A y \in S : x <= y

\* the prefix before the first double underscore, the name itself without one
sanitize_function_name(name) ==
    IF DunderAt(name) = {} THEN name
    ELSE SubSeq(name, 1, Min(DunderAt(name)) - 1)

(***************************************************************************)
(* config: the Resolver.                                                   *)
(***************************************************************************)
ConfigKeys == {"k", "j"}
ConfigVals == {None, Str("a"), Str("b")}
NameVals == {Str("g"), Str("h")}
TargetNames == {"g"}

\* a list of pairwise distinct values
Groups == {<<"list", g>> : g \in
              {s \in SeqsUpTo(ConfigVals, MaxGroupLen) :
                   \A i, j \in DOMAIN s : s[i] = s[j] => i = j}}

Configurations ==
    {c \in UNION {[S -> ConfigVals \cup NameVals] : S \in SUBSET (ConfigKeys \cup {"name"})} :
        \A key \in DOMAIN c : (key = "name") <=> (c[key] \in NameVals)}

\* config(resolves, target_name): the predicate is kept as its variant and pairs
config(variant, pairs, target_name) ==
    [variant |-> variant, pairs |-> pairs, target_name |-> target_name]

when(name, key_value_pairs) == config("when", key_value_pairs, name)
when_not(name, key_value_pairs) == config("when_not", key_value_pairs, name)
when_in(name, key_value_group_pairs) == config("when_in", key_value_group_pairs, name)

\* when_not_in declares no `name` parameter: a name=... argument of the call
\* lands in **key_value_group_pairs, and the decorator gets no target name
when_not_in(name, key_value_group_pairs) ==
    config("when_not_in",
           IF name = None THEN key_value_group_pairs
           ELSE <<<<"name", name>>>> \o key_value_group_pairs,
           None)

\* when_not_in without its `not`
ResolvesItem_NotDropped(variant, key, value, conf) ==
    CASE variant = "when" -> IF value = DictGet(conf, key) THEN "True" ELSE "False"
      [] variant = "when_not" -> IF value # DictGet(conf, key) THEN "True" ELSE "False"
      [] variant = "when_in" -> PyIn(DictGet(conf, key), value)
      [] variant = "when_not_in" -> PyIn(DictGet(conf, key), value)

\* the test of one (key, value) item of a variant's `resolves` closure
ResolvesItem(variant, key, value, conf) ==
    CASE variant = "when" -> IF value = DictGet(conf, key) THEN "True" ELSE "False"
      [] variant = "when_not" -> IF value # DictGet(conf, key) THEN "True" ELSE "False"
      [] variant = "when_in" -> PyIn(DictGet(conf, key), value)
      [] variant = "when_not_in" -> PyNot(PyIn(DictGet(conf, key), value))

\* any() in place of all()
does_resolve_Any(dec, conf) ==
    IF \E i \in DOMAIN dec.pairs :
           ResolvesItem(dec.variant, dec.pairs[i][1], dec.pairs[i][2], conf) = "True"
    THEN "True" ELSE "False"

does_resolve(dec, conf) ==
    PyAll([i \in DOMAIN dec.pairs |->
              ResolvesItem(dec.variant, dec.pairs[i][1], dec.pairs[i][2], conf)],
          1, Len(dec.pairs))

_get_function_name(dec, f) ==
    IF dec.target_name # None THEN dec.target_name[2]
    ELSE sanitize_function_name(f.name)

\* config.validate: raises for a declared name ending in a double underscore
config_validate(dec, f) ==
    IF EndsWithDunder(f.name) THEN "InvalidDecoratorException" ELSE "none"

\* The step of the pipeline for one config decorator: validate, then resolve.
\* resolve assigns the resolved name to fn.__name__ of the function it is given.
Resolve(variant, call, dec) ==
    /\ pc = "resolve"
    /\ LET v == config_validate(dec, fn)
           r == does_resolve(dec, configuration)
       IN  IF v # "none"
           THEN /\ err' = v
                /\ pc' = "failed"
                /\ fn' = fn
                /\ last' = [op |-> "resolve", variant |-> variant, call |-> call,
                            dec |-> dec, fn |-> fn, result |-> "raised"]
           ELSE IF r = "TypeError"
           THEN /\ err' = r
                /\ pc' = "failed"
                /\ fn' = fn
                /\ last' = [op |-> "resolve", variant |-> variant, call |-> call,
                            dec |-> dec, fn |-> fn, result |-> "raised"]
           ELSE IF r = "False"
           THEN /\ err' = err
                /\ pc' = "absent"
                /\ fn' = fn
                /\ last' = [op |-> "resolve", variant |-> variant, call |-> call,
                            dec |-> dec, fn |-> fn, result |-> "absent"]
           ELSE /\ err' = err
                /\ pc' = "generate"
                /\ fn' = [fn EXCEPT !.name = _get_function_name(dec, fn)]
                /\ last' = [op |-> "resolve", variant |-> variant, call |-> call,
                            dec |-> dec, fn |-> fn, result |-> "resolved"]
    /\ UNCHANGED <<configuration, nodes, tagged>>

NameArgs == {None} \cup {Str(n) : n \in TargetNames}

When ==
    \E name \in NameArgs, kv \in Dicts(ConfigKeys, ConfigVals, MaxPairs) :
        Resolve("when", [name |-> name, kwargs |-> kv], when(name, kv))

WhenNot ==
    \E name \in NameArgs, kv \in Dicts(ConfigKeys, ConfigVals, MaxPairs) :
        Resolve("when_not", [name |-> name, kwargs |-> kv], when_not(name, kv))

WhenIn ==
    \E name \in NameArgs, kv \in Dicts(ConfigKeys, Groups, MaxPairs) :
        Resolve("when_in", [name |-> name, kwargs |-> kv], when_in(name, kv))

WhenNotIn ==
    \E name \in NameArgs, kv \in Dicts(ConfigKeys, Groups, MaxPairs) :
        Resolve("when_not_in", [name |-> name, kwargs |-> kv], when_not_in(name, kv))

(***************************************************************************)
(* Nodes and the default node of a function.                               *)
(***************************************************************************)
\* A dict object: its items and its identity. The identity of a dict is the
\* path of allocations that led to it: the dict of a dict literal, then one
\* element per copy, naming the place of the copy (the position of the node
\* it is made for in the output of expand_node, 0 in decorate_node).
NewDict(items) == [id |-> <<>>, items |-> items]

\* d.copy(): a new object with the same items
dict_copy_Alias(d, site) == d
dict_copy(d, site) == [id |-> Append(d.id, site), items |-> d.items]

\* node.Node(name, typ, doc_string, callabl, input_types, tags): the given
\* name -> type map is stored as name -> (type, dependency kind); the node
\* refers to the tags object it was given
Node(name, typ, doc_string, callabl, input_types, tags) ==
    [name |-> name, type |-> typ, documentation |-> doc_string,
     callable |-> callabl,
     input_types |-> [key \in DOMAIN input_types |-> <<input_types[key], "REQUIRED">>],
     tags |-> tags.items, tags_id |-> tags.id]

\* node_.tags: the dict object the node refers to
TagsOf(node_) == [id |-> node_.tags_id, items |-> node_.tags]

\* {key: value for key, (value, _) in input_types.items()}
StripTypes(input_types) == [key \in DOMAIN input_types |-> input_types[key][1]]

get_default_tags(f) == [module |-> Str(f.module)]

\* the node of an undecorated function: its name, return type, docstring,
\* declared parameters with their declared types, and the default tags
DefaultNode(f) ==
    Node(f.name, f.ret, f.doc, [kind |-> "fn", name |-> f.name],
         [key \in Range(f.params) |-> ParamType[key]], NewDict(get_default_tags(f)))

Generate ==
    /\ pc = "generate"
    /\ nodes' = <<DefaultNode(fn)>>
    /\ pc' = "expand"
    /\ last' = [op |-> "generate", fn |-> fn]
    /\ UNCHANGED <<fn, configuration, err, tagged>>

\* the outcome of an expander step: the exception raised, or the nodes
Raised(e) == [err |-> e, nodes |-> <<>>]
Returns(ns) == [err |-> "none", nodes |-> ns]

\* One expander decorates fn: its constructor runs, then validate(fn), then
\* expand_node on the node generated for fn.
Expand(op, dec, outcome) ==
    /\ pc = "expand"
    /\ Len(nodes) = 1
    /\ err' = outcome.err
    /\ nodes' = IF outcome.err = "none" THEN outcome.nodes ELSE nodes
    /\ pc' = IF outcome.err = "none" THEN "decorate" ELSE "failed"
    /\ last' = [op |-> op, dec |-> dec, in |-> nodes[1], out |-> outcome.nodes,
                result |-> IF outcome.err = "none" THEN "ok" ELSE "raised"]
    /\ UNCHANGED <<fn, configuration, tagged>>

(***************************************************************************)
(* parametrized.                                                           *)
(***************************************************************************)
MaxEntries == 2     \* entries per expander decorator

TargetParams == {"a", "b", "c"}
OutputNames == {"n1", "n2"}
BoundValues == {<<"int", "1">>}

\* keys of assigned_output: (name, doc) tuples, and the malformed keys a
\* caller can pass: a plain string, a 1-tuple
OutputKeys == {<<"tuple", <<n, <<"d">>>>>> : n \in OutputNames}
                  \cup {<<"str", <<"n1">>>>, <<"tuple", <<"n1">>>>}

parametrized_init(dec) ==
    IF \E i \in DOMAIN dec.assigned_output : dec.assigned_output[i][1][1] # "tuple"
    THEN "InvalidDecoratorException" ELSE "none"

parametrized_validate(dec, f) ==
    IF dec.parameter \notin Range(f.params)
    THEN "InvalidDecoratorException" ELSE "none"

\* the filter of the comprehension inverted: only the parameter is kept
DropParameter_Inverted(input_types, parameter) ==
    [key \in DOMAIN input_types \cap {parameter} |-> input_types[key]]

\* input_types without the expanded parameter
DropParameter(input_types, parameter) ==
    [key \in DOMAIN input_types \ {parameter} |-> input_types[key]]

parametrized_expand_node(dec, node_) ==
    IF \E i \in DOMAIN dec.assigned_output : Len(dec.assigned_output[i][1][2]) # 2
    THEN Raised("ValueError")   \* (node_name, node_doc) does not unpack
    ELSE Returns([i \in DOMAIN dec.assigned_output |->
            Node(dec.assigned_output[i][1][2][1],
                 node_.type,
                 dec.assigned_output[i][1][2][2],
                 [kind |-> "partial", of |-> node_.callable,
                  keywords |-> <<dec.parameter, dec.assigned_output[i][2]>>],
                 DropParameter(StripTypes(node_.input_types), dec.parameter),
                 dict_copy(TagsOf(node_), i))])

Parametrized ==
    \E parameter \in TargetParams,
       assigned_output \in Dicts(OutputKeys, BoundValues, MaxEntries) :
        LET dec == [parameter |-> parameter, assigned_output |-> assigned_output]
        IN  Expand("parametrized", dec,
                   IF parametrized_init(dec) # "none"
                   THEN Raised(parametrized_init(dec))
                   ELSE IF parametrized_validate(dec, fn) # "none"
                   THEN Raised(parametrized_validate(dec, fn))
                   ELSE parametrized_expand_node(dec, nodes[1]))

(***************************************************************************)
(* parametrized_input (singular, deprecated).                              *)
(***************************************************************************)
InputNames == {"a", "b", "x"}
OutputValues == {<<"tuple", <<n, <<"d">>>>>> : n \in OutputNames}
                    \cup {<<"str", <<"n1">>>>}

parametrized_input_init(dec) ==
    IF \E i \in DOMAIN dec.assigned_output : dec.assigned_output[i][2][1] # "tuple"
    THEN "InvalidDecoratorException" ELSE "none"

parametrized_input_validate(dec, f) ==
    IF dec.parameter \notin Range(f.params)
    THEN "InvalidDecoratorException" ELSE "none"

\* the type is read with [] instead of pop: the old name stays a key
PopInto_NoPop(specific_inputs, old, new) ==
    [key \in DOMAIN specific_inputs \cup {new} |->
        IF key = new THEN specific_inputs[old] ELSE specific_inputs[key]]

\* specific_inputs[new] = specific_inputs.pop(old), for old a key of the dict:
\* the pop runs first, then the type is stored under new
PopInto(specific_inputs, old, new) ==
    [key \in (DOMAIN specific_inputs \ {old}) \cup {new} |->
        IF key = new THEN specific_inputs[old] ELSE specific_inputs[key]]

parametrized_input_expand_node(dec, node_) ==
    IF dec.assigned_output # <<>> /\ dec.parameter \notin DOMAIN node_.input_types
    THEN Raised("KeyError")
    ELSE Returns([i \in DOMAIN dec.assigned_output |->
            Node(dec.assigned_output[i][2][2][1],
                 node_.type,
                 dec.assigned_output[i][2][2][2],
                 [kind |-> "new_fn", of |-> node_.callable,
                  inputs |-> <<<<dec.parameter, dec.assigned_output[i][1]>>>>],
                 PopInto(StripTypes(node_.input_types), dec.parameter,
                         dec.assigned_output[i][1]),
                 dict_copy(TagsOf(node_), i))])

ParametrizedInput ==
    \E parameter \in TargetParams,
       variable_inputs \in Dicts(InputNames, OutputValues, MaxEntries) :
        LET dec == [parameter |-> parameter, assigned_output |-> variable_inputs]
        IN  Expand("parametrized_input", dec,
                   IF parametrized_input_init(dec) # "none"
                   THEN Raised(parametrized_input_init(dec))
                   ELSE IF parametrized_input_validate(dec, fn) # "none"
                   THEN Raised(parametrized_input_validate(dec, fn))
                   ELSE parametrized_input_expand_node(dec, nodes[1]))

(***************************************************************************)
(* parameterized_inputs (plural).                                          *)
(***************************************************************************)
MaxMapping == 2     \* parameters replaced per output of parameterized_inputs

RESERVED_KWARG == "output_name"
MappedParams == {"a", "b"}

Mappings == Dicts(MappedParams, InputNames, MaxMapping)

parameterized_inputs_init(dec) ==
    IF dec.parametrization = <<>> THEN "ValueError"
    ELSE IF \E i \in DOMAIN dec.parametrization : dec.parametrization[i][2] = <<>>
    THEN "ValueError" ELSE "none"

\* doc.format(output_name=output_name, **params): the exception it raises
format_doc_string_error(doc, output_name, params) ==
    IF doc = None THEN "AttributeError"
    ELSE IF RESERVED_KWARG \in DictKeys(params) THEN "TypeError"
    ELSE IF \E field \in Fields(doc) : field \notin DictKeys(params) \cup {RESERVED_KWARG}
    THEN "KeyError" ELSE "none"

\* the value a keyword has in a dict given as a sequence of pairs
ItemOf(d, key) == d[CHOOSE i \in DOMAIN d : d[i][1] = key][2]

format_doc_string(doc, output_name, params) ==
    [i \in DOMAIN doc |->
        IF ~IsField(doc[i]) THEN doc[i]
        ELSE IF FieldName(doc[i]) = RESERVED_KWARG THEN output_name
        ELSE ItemOf(params, FieldName(doc[i]))]

\* the first exception of formatting the docstring for each output in turn
RECURSIVE FirstFormatError(_, _, _)
FirstFormatError(doc, parametrization, i) ==
    IF i > Len(parametrization) THEN "none"
    ELSE LET e == format_doc_string_error(doc, parametrization[i][1],
                                          parametrization[i][2])
         IN  IF e # "none" THEN e
             ELSE FirstFormatError(doc, parametrization, i + 1)

parameterized_inputs_validate(dec, f) ==
    LET e == FirstFormatError(f.doc, dec.parametrization, 1)
        missing_params ==
            {p \in UNION {DictKeys(dec.parametrization[i][2]) :
                              i \in DOMAIN dec.parametrization} :
                p \notin Range(f.params)}
    IN  IF e = "KeyError" THEN "InvalidDecoratorException"
        ELSE IF e # "none" THEN e
        ELSE IF RESERVED_KWARG \in Range(f.params) THEN "InvalidDecoratorException"
        ELSE IF missing_params # {} THEN "InvalidDecoratorException"
        ELSE "none"

\* the loop over mapping.items(): each target is popped and its type stored
\* under the replacement name, one pair after the other; the pop of a name
\* that is no longer a key raises KeyError
RECURSIVE RenameInputs(_, _, _)
RenameInputs(specific_inputs, mapping, i) ==
    IF i > Len(mapping) THEN [err |-> "none", value |-> specific_inputs]
    ELSE IF mapping[i][1] \notin DOMAIN specific_inputs
    THEN [err |-> "KeyError", value |-> specific_inputs]
    ELSE RenameInputs(PopInto(specific_inputs, mapping[i][1], mapping[i][2]),
                      mapping, i + 1)

parameterized_inputs_expand_node(dec, node_) ==
    LET types == StripTypes(node_.input_types)
        renamed == [i \in DOMAIN dec.parametrization |->
                       RenameInputs(types, dec.parametrization[i][2], 1)]
        e == FirstFormatError(node_.documentation, dec.parametrization, 1)
    IN  IF e # "none" THEN Raised(e)
        ELSE IF \E i \in DOMAIN renamed : renamed[i].err # "none"
        THEN Raised("KeyError")
        ELSE Returns([i \in DOMAIN dec.parametrization |->
                Node(dec.parametrization[i][1],
                     node_.type,
                     format_doc_string(node_.documentation,
                                       dec.parametrization[i][1],
                                       dec.parametrization[i][2]),
                     [kind |-> "new_fn", of |-> node_.callable,
                      inputs |-> dec.parametrization[i][2]],
                     renamed[i].value,
                     dict_copy(TagsOf(node_), i))])

ParameterizedInputs ==
    \E parameterization \in Dicts(OutputNames, Mappings, MaxEntries) :
        LET dec == [parametrization |-> parameterization]
        IN  Expand("parameterized_inputs", dec,
                   IF parameterized_inputs_init(dec) # "none"
                   THEN Raised(parameterized_inputs_init(dec))
                   ELSE IF parameterized_inputs_validate(dec, fn) # "none"
                   THEN Raised(parameterized_inputs_validate(dec, fn))
                   ELSE parameterized_inputs_expand_node(dec, nodes[1]))

(***************************************************************************)
(* extract_columns and extract_fields.                                     *)
(***************************************************************************)
ColumnNames == {"c1", "c2"}
Label(name) == <<"str", <<name>>>>
FillValues == {None, <<"int", "0">>}
Data(label) == <<"Series", label[2][1]>>

\* a column argument is a name or a (name, documentation) tuple
ColumnArgs == {Label(c) : c \in ColumnNames} \cup {<<"tuple", <<"c1", <<"d">>>>>>}
ListArg == <<"list", <<"c1">>>>
ColumnLists == SeqsUpTo(ColumnArgs, MaxEntries) \cup {<<ListArg>>}

\* the records the decorated function can produce: any of the columns
Records == {[label \in S |-> Data(label)] : S \in SUBSET {Label(c) : c \in ColumnNames}}

extract_columns_init(dec) ==
    IF dec.columns = <<>> THEN "InvalidDecoratorException"
    ELSE IF dec.columns[1][1] = "list" THEN "InvalidDecoratorException"
    ELSE "none"

extract_columns_validate(dec, f) ==
    LET is_dataframe == issubclass(f.ret, "DataFrame")
    IN  IF is_dataframe = "TypeError" THEN "TypeError"
        ELSE IF is_dataframe = "False" THEN "InvalidDecoratorException"
        ELSE "none"

ColumnName(column) == column[2][1]
ColumnDoc(column, base_doc) == IF column[1] = "tuple" THEN column[2][2] ELSE base_doc

extract_columns_expand_node_SameInputs(dec, node_) ==
    Returns(
        <<Node(node_.name, "DataFrame", node_.documentation,
               [kind |-> "df_generator", of |-> node_.callable,
                columns |-> dec.columns, fill_with |-> dec.fill_with],
               StripTypes(node_.input_types), dict_copy(TagsOf(node_), 1))>>
        \o [i \in DOMAIN dec.columns |->
               Node(ColumnName(dec.columns[i]), "Series",
                    ColumnDoc(dec.columns[i], node_.documentation),
                    [kind |-> "extractor_fn",
                     column_to_extract |-> ColumnName(dec.columns[i]),
                     source |-> node_.name],
                    StripTypes(node_.input_types), dict_copy(TagsOf(node_), i + 1))])
extract_columns_expand_node(dec, node_) ==
    Returns(
        <<Node(node_.name, "DataFrame", node_.documentation,
               [kind |-> "df_generator", of |-> node_.callable,
                columns |-> dec.columns, fill_with |-> dec.fill_with],
               StripTypes(node_.input_types), dict_copy(TagsOf(node_), 1))>>
        \o [i \in DOMAIN dec.columns |->
               Node(ColumnName(dec.columns[i]), "Series",
                    ColumnDoc(dec.columns[i], node_.documentation),
                    [kind |-> "extractor_fn",
                     column_to_extract |-> ColumnName(dec.columns[i]),
                     source |-> node_.name],
                    [key \in {node_.name} |-> "DataFrame"], dict_copy(TagsOf(node_), i + 1))])

ExtractColumns ==
    \E columns \in ColumnLists, fill_with \in FillValues :
        LET dec == [columns |-> columns, fill_with |-> fill_with]
        IN  Expand("extract_columns", dec,
                   IF extract_columns_init(dec) # "none"
                   THEN Raised(extract_columns_init(dec))
                   ELSE IF extract_columns_validate(dec, fn) # "none"
                   THEN Raised(extract_columns_validate(dec, fn))
                   ELSE extract_columns_expand_node(dec, nodes[1]))

\* fields is a dict of name -> type; the malformed arguments a caller can
\* pass: not a dict, a key that is not a string, a value that is not a type
FieldKeys == {Label(c) : c \in ColumnNames} \cup {<<"int", <<"1">>>>}
FieldTypes == {<<"type", "int">>, <<"str", "int">>}
FieldArgs == {<<"dict", d>> : d \in Dicts(FieldKeys, FieldTypes, MaxEntries)}
                 \cup {<<"list", <<<<Label("c1"), <<"type", "int">>>>>>>>}

extract_fields_init(dec) ==
    IF dec.fields[2] = <<>> THEN "InvalidDecoratorException"
    ELSE IF dec.fields[1] # "dict" THEN "InvalidDecoratorException"
    ELSE IF \E i \in DOMAIN dec.fields[2] :
                \/ dec.fields[2][i][1][1] # "str"
                \/ dec.fields[2][i][2][1] # "type"
    THEN "InvalidDecoratorException"
    ELSE "none"

extract_fields_validate(dec, f) ==
    IF f.ret \in Generics
    THEN IF Origin[f.ret] = "dict" THEN "none" ELSE "InvalidDecoratorException"
    ELSE IF f.ret = "dict" THEN "none"
    ELSE "InvalidDecoratorException"

extract_fields_expand_node(dec, node_) ==
    Returns(
        <<Node(node_.name, "dict", node_.documentation,
               [kind |-> "dict_generator", of |-> node_.callable,
                columns |-> [i \in DOMAIN dec.fields[2] |-> dec.fields[2][i][1]],
                fill_with |-> dec.fill_with],
               StripTypes(node_.input_types), dict_copy(TagsOf(node_), 1))>>
        \o [i \in DOMAIN dec.fields[2] |->
               Node(ColumnName(dec.fields[2][i][1]), dec.fields[2][i][2][2],
                    node_.documentation,
                    [kind |-> "extractor_fn",
                     column_to_extract |-> ColumnName(dec.fields[2][i][1]),
                     source |-> node_.name],
                    [key \in {node_.name} |-> "dict"], dict_copy(TagsOf(node_), i + 1))])

ExtractFields ==
    \E fields \in FieldArgs, fill_with \in FillValues :
        LET dec == [fields |-> fields, fill_with |-> fill_with]
        IN  Expand("extract_fields", dec,
                   IF extract_fields_init(dec) # "none"
                   THEN Raised(extract_fields_init(dec))
                   ELSE IF extract_fields_validate(dec, fn) # "none"
                   THEN Raised(extract_fields_validate(dec, fn))
                   ELSE extract_fields_expand_node(dec, nodes[1]))

\* df_generator / dict_generator on the record the wrapped function produced:
\* with a fill default, every element of self.columns / key of self.fields
\* that is not in the record is stored in it with the fill value
generator(callabl, produced) ==
    IF callabl.fill_with = None THEN produced
    ELSE [label \in DOMAIN produced \cup Range(callabl.columns) |->
             IF label \in DOMAIN produced THEN produced[label]
             ELSE callabl.fill_with]

\* extractor_fn(**{node_.name: record})
\* the message of the exception names the column, the node and the labels
\* of the record
extractor_fn_Lenient(callabl, record) ==
    IF Label(callabl.column_to_extract) \notin DOMAIN record
    THEN [err |-> "none", value |-> None, message |-> None]
    ELSE [err |-> "none", value |-> record[Label(callabl.column_to_extract)],
          message |-> None]
extractor_fn(callabl, record) ==
    IF Label(callabl.column_to_extract) \notin DOMAIN record
    THEN [err |-> "InvalidDecoratorException", value |-> None,
          message |-> [column_to_extract |-> callabl.column_to_extract,
                       produced_by |-> callabl.source,
                       produced |-> DOMAIN record]]
    ELSE [err |-> "none", value |-> record[Label(callabl.column_to_extract)],
          message |-> None]

\* The nodes of an extract_columns / extract_fields expansion are executed:
\* the base node on what the function produces, every extractor on its output.
Invoke ==
    /\ pc = "decorate"
    /\ nodes # <<>>
    /\ nodes[1].callable.kind \in {"df_generator", "dict_generator"}
    /\ \E produced \in Records :
          LET record == generator(nodes[1].callable, produced)
          IN  last' = [op |-> "invoke", produced |-> produced, record |-> record,
                       results |-> [i \in 1..(Len(nodes) - 1) |->
                                       extractor_fn(nodes[i + 1].callable, record)]]
    /\ pc' = "invoked"
    /\ UNCHANGED <<fn, configuration, nodes, err, tagged>>

(***************************************************************************)
(* does: the creator that replaces the body of an empty function.          *)
(***************************************************************************)
\* co_consts of the compiled function: the docstring or None first, then the
\* constants of the body that are not there yet, the implicit None last
BodyConsts(body) ==
    IF body = "return 5" THEN <<"5">>
    ELSE IF body = "x = 1" THEN <<"1", "None">>
    ELSE IF body = "return a" THEN <<>>
    ELSE <<"None">>
co_consts(f) ==
    LET first == IF f.doc = None THEN "None" ELSE "docstring"
    IN  <<first>> \o SelectSeq(BodyConsts(f.body), LAMBDA c : c # first)

\* the position of a constant in co_consts, counted from 0
ConstIndex(f, c) == CHOOSE i \in 0..3 : co_consts(f)[i + 1] = c

\* co_code: the instructions of the body, constants named by their position
co_code(f) ==
    IF f.body = "return 5"
    THEN <<<<"LOAD_CONST", ConstIndex(f, "5")>>, <<"RETURN_VALUE", 0>>>>
    ELSE IF f.body = "x = 1"
    THEN <<<<"LOAD_CONST", ConstIndex(f, "1")>>, <<"STORE_FAST", Len(f.params)>>,
           <<"LOAD_CONST", ConstIndex(f, "None")>>, <<"RETURN_VALUE", 0>>>>
    ELSE IF f.body = "return a"
    THEN <<<<"LOAD_FAST", 0>>, <<"RETURN_VALUE", 0>>>>
    ELSE <<<<"LOAD_CONST", ConstIndex(f, "None")>>, <<"RETURN_VALUE", 0>>>>

_empty_function == [params |-> <<>>, doc |-> None, body |-> "pass"]
_empty_function_with_docstring == [params |-> <<>>, doc |-> <<>>, body |-> "pass"]

ensure_function_empty(f) ==
    IF co_code(f) \notin {co_code(_empty_function),
                          co_code(_empty_function_with_docstring)}
    THEN "is not empty"
    ELSE "none"

\* the replacing function: its parameters with their kinds, its return annotation
VarKeyword == [name |-> "kwargs", kind |-> "VAR_KEYWORD"]
Positional == [name |-> "x", kind |-> "POSITIONAL_OR_KEYWORD"]
TodoParams == {<<>>, <<VarKeyword>>, <<Positional>>, <<Positional, VarKeyword>>}
TodoReturns == {"int", "bool", "str", "MyDataFrame", "List[int]"}
Todos == [name : {"todo"}, params : TodoParams, ret : TodoReturns]

\* a violation is the class of the exception and the head of its message
Violation(e, message) == [err |-> e, message |-> message]
NoViolation == Violation("none", "")

ensure_function_kwarg_only(todo) ==
    IF Len(todo.params) > 1
    THEN Violation("InvalidDecoratorException", "Too many parameters")
    ELSE IF Len(todo.params) # 1
    THEN Violation("ValueError", "not enough values to unpack")
    ELSE IF todo.params[1].kind # "VAR_KEYWORD"
    THEN Violation("InvalidDecoratorException", "Must have only one parameter")
    ELSE NoViolation

ensure_output_types_match(f, todo) ==
    LET compatible == issubclass(todo.ret, f.ret)
    IN  IF compatible = "TypeError"
        THEN Violation("TypeError", "issubclass() arg must be a class")
        ELSE IF compatible = "False"
        THEN Violation("InvalidDecoratorException", "Output types are not compatible")
        ELSE NoViolation

does_validate(dec, f) ==
    IF ensure_function_empty(f) # "none"
    THEN Violation("InvalidDecoratorException", ensure_function_empty(f))
    ELSE IF ensure_function_kwarg_only(dec.replacing_function) # NoViolation
    THEN ensure_function_kwarg_only(dec.replacing_function)
    ELSE ensure_output_types_match(f, dec.replacing_function)

does_generate_node_TodoSignature(dec, f) ==
    Node(f.name, dec.replacing_function.ret, IF f.doc # None THEN f.doc ELSE <<>>,
         dec.replacing_function,
         [key \in {p.name : p \in Range(dec.replacing_function.params)} |-> "Any"],
         NewDict(get_default_tags(f)))
does_generate_node(dec, f) ==
    Node(f.name, f.ret, IF f.doc # None THEN f.doc ELSE <<>>,
         dec.replacing_function,
         [key \in Range(f.params) |-> ParamType[key]],
         NewDict(get_default_tags(f)))

\* The function is decorated with does(todo): validate, then generate_node.
Does ==
    \E todo \in Todos :
        LET dec == [replacing_function |-> todo]
            violation == does_validate(dec, fn)
        IN  /\ pc = "generate"
            /\ err' = violation.err
            /\ nodes' = IF violation.err = "none"
                        THEN <<does_generate_node(dec, fn)>> ELSE nodes
            /\ pc' = IF violation.err = "none" THEN "expand" ELSE "failed"
            /\ last' = [op |-> "does", dec |-> dec, fn |-> fn,
                        message |-> violation.message,
                        result |-> IF violation.err = "none" THEN "ok" ELSE "raised"]
            /\ UNCHANGED <<fn, configuration, tagged>>

(***************************************************************************)
(* tag: the metadata decorator.                                            *)
(***************************************************************************)
MaxTags == 2            \* tags per tag decorator
MaxTagDecorators == 2   \* tag decorators on one function

RESERVED_TAG_NAMESPACES == {"hamilton", "data_quality", "gdpr", "ccpa", "dag", "module"}

TagKeys == {"x", "y.z", "module", "gdpr.x", "x.9"}
TagValues == {Str("1"), Str("2"), <<"int", "1">>, <<"list", "[]">>}

\* positions of the dots of a key
DotsAt(key) == {i \in 1..Len(key) : SubSeq(key, i, i) = "."}

\* key.split('.')
RECURSIVE Split(_)
Split(key) ==
    IF DotsAt(key) = {} THEN <<key>>
    ELSE <<SubSeq(key, 1, Min(DotsAt(key)) - 1)>>
             \o Split(SubSeq(key, Min(DotsAt(key)) + 1, Len(key)))

IdentifierStart == {"a", "b", "c", "d", "e", "f", "g", "h", "i", "j", "k", "l", "m",
                    "n", "o", "p", "q", "r", "s", "t", "u", "v", "w", "x", "y", "z",
                    "_"}
Digits == {"0", "1", "2", "3", "4", "5", "6", "7", "8", "9"}

\* str.isidentifier()
isidentifier(c) ==
    /\ Len(c) > 0
    /\ SubSeq(c, 1, 1) \in IdentifierStart
    /\ \A i \in 1..Len(c) : SubSeq(c, i, i) \in IdentifierStart \cup Digits

_key_allowed(key) ==
    LET key_components == Split(key)
    IN  IF Len(key_components) = 0 THEN FALSE
        ELSE IF key_components[1] \in RESERVED_TAG_NAMESPACES THEN FALSE
        ELSE \A i \in DOMAIN key_components : isidentifier(key_components[i])

_value_allowed(value) == value[1] = "str"

\* a (key, value) tuple can be added to a set when the value is hashable
Hashable(value) == value[1] \notin {"list", "dict", "set"}

\* the loop of tag.validate from item i on: a bad tag is added to the set
\* bad_tags, which raises TypeError for an unhashable value
RECURSIVE CollectBadTags(_, _, _)
CollectBadTags(tags, i, bad_tags) ==
    IF i > Len(tags) THEN [err |-> "none", bad_tags |-> bad_tags]
    ELSE IF ~_key_allowed(tags[i][1]) \/ ~_value_allowed(tags[i][2])
    THEN IF ~Hashable(tags[i][2]) THEN [err |-> "TypeError", bad_tags |-> bad_tags]
         ELSE CollectBadTags(tags, i + 1, bad_tags \cup {tags[i]})
    ELSE CollectBadTags(tags, i + 1, bad_tags)

tag_validate(dec) ==
    LET r == CollectBadTags(dec.tags, 1, {})
    IN  IF r.err # "none" THEN r.err
        ELSE IF r.bad_tags # {} THEN "InvalidDecoratorException"
        ELSE "none"

\* the update the other way round: the decorator's value replaces the node's
decorate_node_OuterWins(dec, node_) ==
    [node_ EXCEPT !.tags =
        [key \in DictKeys(dec.tags) \cup DOMAIN node_.tags |->
            IF key \in DictKeys(dec.tags) THEN ItemOf(dec.tags, key)
            ELSE node_.tags[key]],
                  !.tags_id = Append(node_.tags_id, 0)]

\* unioned_tags = self.tags.copy(); unioned_tags.update(node_.tags): the
\* new node refers to unioned_tags, a new dict
decorate_node(dec, node_) ==
    [node_ EXCEPT !.tags =
        [key \in DictKeys(dec.tags) \cup DOMAIN node_.tags |->
            IF key \in DOMAIN node_.tags THEN node_.tags[key]
            ELSE ItemOf(dec.tags, key)],
                  !.tags_id = Append(node_.tags_id, 0)]

\* One tag decorator decorates fn: validate, then decorate_node on every node.
Tag ==
    /\ pc = "decorate"
    /\ Len(tagged) < MaxTagDecorators
    /\ \E tags \in Dicts(TagKeys, TagValues, MaxTags) :
          LET dec == [tags |-> tags]
              v == tag_validate(dec)
          IN  IF v # "none"
              THEN /\ err' = v
                   /\ pc' = "failed"
                   /\ nodes' = nodes
                   /\ tagged' = tagged
                   /\ last' = [op |-> "tag", dec |-> dec, in |-> nodes,
                               out |-> <<>>, result |-> "raised"]
              ELSE /\ err' = err
                   /\ pc' = pc
                   /\ nodes' = [i \in DOMAIN nodes |-> decorate_node(dec, nodes[i])]
                   /\ tagged' = Append(tagged, dec)
                   /\ last' = [op |-> "tag", dec |-> dec, in |-> nodes,
                               out |-> [i \in DOMAIN nodes |->
                                           decorate_node(dec, nodes[i])],
                               result |-> "ok"]
    /\ UNCHANGED <<fn, configuration>>

(***************************************************************************)
(* Stacked decorators: expanders and tag decorators applied one after the  *)
(* other to the nodes of one function.                                     *)
(***************************************************************************)
MaxChainDepth == 2      \* decorators applied on the way to one node
MaxChainNodes == 3      \* nodes of the function at any time

\* the expanders of a chain, each with its kind
ChainKey(n) == <<"tuple", <<n, <<"d">>>>>>
ChainParametrized ==
    {[kind |-> "parametrized", dec |-> [parameter |-> "a", assigned_output |-> o]] :
         o \in {<<<<ChainKey("n1"), <<"int", "1">>>>>>,
                <<<<ChainKey("n1"), <<"int", "1">>>>, <<ChainKey("n2"), <<"int", "1">>>>>>}}
ChainParametrizedInput ==
    {[kind |-> "parametrized_input",
      dec |-> [parameter |-> p, assigned_output |-> <<<<"x", ChainKey("n1")>>>>]] :
         p \in {"a", "b"}}
ChainParameterizedInputs ==
    {[kind |-> "parameterized_inputs",
      dec |-> [parametrization |-> <<<<"n2", <<<<"b", "x">>>>>>>>]]}
ChainExtractColumns ==
    {[kind |-> "extract_columns", dec |-> [columns |-> c, fill_with |-> None]] :
         c \in {<<Label("c1")>>, <<Label("c1"), Label("c2")>>}}
ChainExtractFields ==
    {[kind |-> "extract_fields",
      dec |-> [fields |-> <<"dict", <<<<Label("c1"), <<"type", "int">>>>>>>>,
               fill_with |-> None]]}
ChainTags == {<<<<"x", Str("1")>>>>, <<<<"y.z", Str("2")>>>>, <<<<"module", Str("1")>>>>}

\* the constructor, validate and expand_node of an expander of either kind
expander_init(e) ==
    CASE e.kind = "parametrized" -> parametrized_init(e.dec)
      [] e.kind = "parametrized_input" -> parametrized_input_init(e.dec)
      [] e.kind = "parameterized_inputs" -> parameterized_inputs_init(e.dec)
      [] e.kind = "extract_columns" -> extract_columns_init(e.dec)
      [] e.kind = "extract_fields" -> extract_fields_init(e.dec)
expander_validate(e, f) ==
    CASE e.kind = "parametrized" -> parametrized_validate(e.dec, f)
      [] e.kind = "parametrized_input" -> parametrized_input_validate(e.dec, f)
      [] e.kind = "parameterized_inputs" -> parameterized_inputs_validate(e.dec, f)
      [] e.kind = "extract_columns" -> extract_columns_validate(e.dec, f)
      [] e.kind = "extract_fields" -> extract_fields_validate(e.dec, f)
expander_expand_node(e, node_) ==
    CASE e.kind = "parametrized" -> parametrized_expand_node(e.dec, node_)
      [] e.kind = "parametrized_input" -> parametrized_input_expand_node(e.dec, node_)
      [] e.kind = "parameterized_inputs" -> parameterized_inputs_expand_node(e.dec, node_)
      [] e.kind = "extract_columns" -> extract_columns_expand_node(e.dec, node_)
      [] e.kind = "extract_fields" -> extract_fields_expand_node(e.dec, node_)

\* construction, validation against fn, then expand_node on the node
expander_outcome(e, f, node_) ==
    IF expander_init(e) # "none" THEN Raised(expander_init(e))
    ELSE IF expander_validate(e, f) # "none" THEN Raised(expander_validate(e, f))
    ELSE expander_expand_node(e, node_)

\* An expander is applied to one of the nodes: the nodes it returns take the
\* place of that node; an exception ends the compilation.
ChainExpand(e) ==
    \E i \in DOMAIN nodes :
        LET outcome == expander_outcome(e, fn, nodes[i])
        IN  /\ pc = "chain"
            /\ Len(nodes[i].tags_id) < MaxChainDepth
            /\ Len(nodes) - 1 + Len(outcome.nodes) <= MaxChainNodes
            /\ err' = outcome.err
            /\ IF outcome.err = "none"
               THEN /\ nodes' = SubSeq(nodes, 1, i - 1) \o outcome.nodes
                                    \o SubSeq(nodes, i + 1, Len(nodes))
                    /\ pc' = pc
                    /\ last' = [op |-> "chain_expand", kind |-> e.kind,
                                in |-> nodes[i], out |-> outcome.nodes,
                                result |-> "ok"]
               ELSE /\ nodes' = nodes
                    /\ pc' = "failed"
                    /\ last' = [op |-> "chain_expand", kind |-> e.kind,
                                in |-> nodes[i], out |-> <<>>,
                                result |-> "raised"]
            /\ UNCHANGED <<fn, configuration, tagged>>

\* A tag decorator is applied: validate, then decorate_node on every node.
ChainTag ==
    \E tags \in ChainTags :
        LET dec == [tags |-> tags]
        IN  /\ pc = "chain"
            /\ \A i \in DOMAIN nodes : Len(nodes[i].tags_id) < MaxChainDepth
            /\ err' = tag_validate(dec)
            /\ IF tag_validate(dec) = "none"
               THEN /\ nodes' = [i \in DOMAIN nodes |-> decorate_node(dec, nodes[i])]
                    /\ pc' = pc
                    /\ tagged' = Append(tagged, dec)
                    /\ last' = [op |-> "chain_tag", dec |-> dec, result |-> "ok"]
               ELSE /\ nodes' = nodes
                    /\ pc' = "failed"
                    /\ tagged' = tagged
                    /\ last' = [op |-> "chain_tag", dec |-> dec, result |-> "raised"]
            /\ UNCHANGED <<fn, configuration>>

(***************************************************************************)
(* Claims about tag.                                                       *)
(***************************************************************************)
\* the tag decorators applied so far that set the key
Setters(key) == {i \in DOMAIN tagged : key \in DictKeys(tagged[i].tags)}

\* C4: decorate_node returns the node with the union of the decorator's tags
\* and the node's tags, the node's value kept on a collision; so after any
\* sequence of tag decorators, applied innermost first, each key has the
\* value of the innermost decorator that sets it.
C4_InnerTagWins ==
    /\ (last.op = "tag" /\ last.result = "ok") =>
          \A i \in DOMAIN last.out :
              /\ DOMAIN last.out[i].tags =
                     DOMAIN last.in[i].tags \cup DictKeys(last.dec.tags)
              /\ \A key \in DOMAIN last.in[i].tags :
                     last.out[i].tags[key] = last.in[i].tags[key]
              /\ \A j \in DOMAIN last.dec.tags :
                     last.dec.tags[j][1] \notin DOMAIN last.in[i].tags =>
                         last.out[i].tags[last.dec.tags[j][1]] = last.dec.tags[j][2]
              /\ [last.out[i] EXCEPT !.tags = last.in[i].tags,
                                      !.tags_id = last.in[i].tags_id] = last.in[i]
    /\ \A i \in DOMAIN nodes :
          \A key \in TagKeys :
              Setters(key) # {} =>
                  /\ key \in DOMAIN nodes[i].tags
                  /\ nodes[i].tags[key] = ItemOf(tagged[Min(Setters(key))].tags, key)

\* inner tag(x="2"), then outer tag(x="1"): x is "2"
C4_Witness ==
    /\ Len(tagged) = 2
    /\ tagged[1].tags = <<<<"x", Str("2")>>>>
    /\ tagged[2].tags = <<<<"x", Str("1")>>>>
    /\ last.op = "tag" /\ last.result = "ok"
    /\ \A i \in DOMAIN nodes : nodes[i].tags["x"] = Str("2")

FirstComponent(key) == Split(key)[1]

Expanded(op) == last.op = op /\ last.result = "ok"
ExpanderOps == {"parametrized", "parametrized_input", "parameterized_inputs",
                "extract_columns", "extract_fields"}

\* C1: parametrized.expand_node on a node that has the parameter p as an
\* input returns exactly one node per (name, doc) key of assigned_output, in
\* mapping order; no returned node has p in its input-dependency map, and
\* each has every other input of the original node with its type unchanged.
C1_ParametrizedExpansion ==
    (Expanded("parametrized") /\ last.dec.parameter \in DOMAIN last.in.input_types) =>
        /\ Len(last.out) = Len(last.dec.assigned_output)
        /\ \A i \in DOMAIN last.out :
              /\ last.out[i].name = last.dec.assigned_output[i][1][2][1]
              /\ last.out[i].documentation = last.dec.assigned_output[i][1][2][2]
              /\ last.dec.parameter \notin DOMAIN last.out[i].input_types
              /\ \A key \in DOMAIN last.in.input_types \ {last.dec.parameter} :
                    /\ key \in DOMAIN last.out[i].input_types
                    /\ last.out[i].input_types[key] = last.in.input_types[key]

\* two entries expanded over one of the two inputs of the node
C1_Witness ==
    /\ Expanded("parametrized")
    /\ Len(last.dec.assigned_output) = 2
    /\ last.dec.parameter \in DOMAIN last.in.input_types
    /\ DOMAIN last.in.input_types # {last.dec.parameter}
    /\ Len(last.out) = 2

\* the (target parameter, substitute name) pairs of the entry of node i
EntryPairs(i) ==
    IF last.op = "parametrized_input"
    THEN {<<last.dec.parameter, last.dec.assigned_output[i][1]>>}
    ELSE Range(last.dec.parametrization[i][2])

Targets(i) == {pair[1] : pair \in EntryPairs(i)}
Substitutes(i) == {pair[2] : pair \in EntryPairs(i)}

Substituted == Expanded("parametrized_input") \/ Expanded("parameterized_inputs")

\* C2 as stated: every substitute name of a generated node's entry is a key
\* of its input-dependency map and every target parameter is not, also when a
\* substitute equals a target or another declared parameter.
C2_Original ==
    Substituted =>
        \A i \in DOMAIN last.out :
            /\ Substitutes(i) \subseteq DOMAIN last.out[i].input_types
            /\ Targets(i) \cap DOMAIN last.out[i].input_types = {}

\* C2 amended: the same for every generated node whose entry has no
\* substitute name that is also a target parameter of that entry.
C2_SubstitutesReplaceTargets ==
    Substituted =>
        \A i \in DOMAIN last.out :
            Substitutes(i) \cap Targets(i) = {} =>
                /\ Substitutes(i) \subseteq DOMAIN last.out[i].input_types
                /\ Targets(i) \cap DOMAIN last.out[i].input_types = {}

\* parameter a replaced by b, which is another declared parameter of the node
C2_Witness ==
    /\ Expanded("parameterized_inputs")
    /\ \E i \in DOMAIN last.out :
          /\ last.dec.parametrization[i][2] = <<<<"a", "b">>>>
          /\ "b" \in DOMAIN last.in.input_types
          /\ "b" \in DOMAIN last.out[i].input_types

\* the kind of record a return annotation declares
IsDataFrameType(t) == t \in {"DataFrame", "MyDataFrame"}
IsDictType(t) == t \in {"dict", "Dict[str, int]"}

Extracting == last.op \in {"extract_columns", "extract_fields"}

\* C11: a function whose declared return type is not the expected record
\* kind fails validation with InvalidDecoratorException and no node is
\* generated by expand_node: extract_columns needs a dataframe type or a
\* subclass, extract_fields needs dict or a generic Dict.
C11_NonRecordFailsValidation ==
    /\ (last.op = "extract_columns" /\ extract_columns_init(last.dec) = "none"
            /\ ~IsDataFrameType(fn.ret)) =>
          /\ err = "InvalidDecoratorException"
          /\ last.result = "raised" /\ last.out = <<>>
    /\ (last.op = "extract_fields" /\ extract_fields_init(last.dec) = "none"
            /\ ~IsDictType(fn.ret)) =>
          /\ err = "InvalidDecoratorException"
          /\ last.result = "raised" /\ last.out = <<>>

\* the extractor results of an invocation whose decorator has no fill default
Unfilled == last.op = "invoke" /\ nodes[1].callable.fill_with = None
Requested(i) == Label(nodes[i + 1].callable.column_to_extract)

\* C12: with no fill default, an extractor node invoked on a record without
\* its column/field raises InvalidDecoratorException with a message naming
\* the missing name and the names the record has; on a record that has the
\* name it returns exactly that column/field of the record.
C12_UnfilledExtractor ==
    Unfilled =>
        \A i \in DOMAIN last.results :
            IF Requested(i) \in DOMAIN last.produced
            THEN /\ last.results[i].err = "none"
                 /\ last.results[i].value = last.produced[Requested(i)]
            ELSE /\ last.results[i].err = "InvalidDecoratorException"
                 /\ last.results[i].message.column_to_extract
                        = nodes[i + 1].callable.column_to_extract
                 /\ last.results[i].message.produced = DOMAIN last.produced
C12_Witness ==
    /\ Unfilled
    /\ \E i \in DOMAIN last.results : Requested(i) \in DOMAIN last.produced
    /\ \E i \in DOMAIN last.results : /\ Requested(i) \notin DOMAIN last.produced
                                      /\ last.produced # <<>>

\* the names a decorator requests, in request order
RequestedNames ==
    IF last.op = "extract_columns"
    THEN [i \in DOMAIN last.dec.columns |-> last.dec.columns[i][2][1]]
    ELSE [i \in DOMAIN last.dec.fields[2] |-> last.dec.fields[2][i][1][2][1]]

\* C15: the expansion of extract_columns / extract_fields for n requested
\* names has 1 + n nodes: a node with the original node's name, then one node
\* per requested name in request order, named after it, whose only input is
\* the original node's name.
C15_ExtractExpansion ==
    (Extracting /\ last.result = "ok") =>
        /\ Len(last.out) = 1 + Len(RequestedNames)
        /\ last.out[1].name = last.in.name
        /\ \A i \in DOMAIN RequestedNames :
              /\ last.out[i + 1].name = RequestedNames[i]
              /\ DOMAIN last.out[i + 1].input_types = {last.in.name}
C15_Witness ==
    /\ Extracting /\ last.result = "ok"
    /\ Len(RequestedNames) = 2
    /\ RequestedNames[1] # RequestedNames[2]
    /\ last.in.name \notin DOMAIN last.in.input_types

\* the three faults of a function under a parameterized_inputs decorator
MissingTarget(dec, f) ==
    \E i \in DOMAIN dec.parametrization :
        \E key \in DictKeys(dec.parametrization[i][2]) : key \notin Range(f.params)
ReservedDeclared(f) == "output_name" \in Range(f.params)
UndefinedPlaceholder(dec, f) ==
    /\ f.doc # None
    /\ \E i \in DOMAIN dec.parametrization : \E field \in Fields(f.doc) :
          field \notin DictKeys(dec.parametrization[i][2]) \cup {"output_name"}

\* C16: parameterized_inputs.validate raises InvalidDecoratorException iff a
\* target parameter of a mapping is not declared by the function, or
\* output_name is a declared parameter, or the docstring references a
\* placeholder that is neither output_name nor a target of the mapping;
\* otherwise it accepts the function.
C16_ValidateIff ==
    (last.op = "parameterized_inputs" /\ parameterized_inputs_init(last.dec) = "none") =>
        parameterized_inputs_validate(last.dec, fn) =
            IF \/ MissingTarget(last.dec, fn)
               \/ ReservedDeclared(fn)
               \/ UndefinedPlaceholder(last.dec, fn)
            THEN "InvalidDecoratorException"
            ELSE "none"

\* C6: with a fill default, the record returned by the base node has every
\* requested column/field, and every extractor node of the expansion returns
\* a value on it, for every accepted form of the requested columns.
C6_FillMakesExtractorsTotal ==
    (last.op = "invoke" /\ nodes[1].callable.fill_with # None) =>
        /\ \A i \in 2..Len(nodes) : Label(nodes[i].name) \in DOMAIN last.record
        /\ \A i \in DOMAIN last.results : last.results[i].err = "none"

\* C7: compilation ends without an error or with InvalidDecoratorException.
C7_SingleErrorKind == err \in {"none", "InvalidDecoratorException"}

\* C8: an expander that was constructed and validated without error returns
\* at least one node.
C8_ExpansionNonempty ==
    (last.op \in ExpanderOps /\ last.result = "ok") => Len(last.out) > 0

(***************************************************************************)
(* Claims about config.                                                    *)
(***************************************************************************)
Resolved == last.op = "resolve" /\ last.result = "resolved"
Returned == last.op = "resolve" /\ last.result \in {"resolved", "absent"}

\* configuration[key] == value, a missing key being equal to nothing
EqualsPresent(conf, key, value) == key \in DOMAIN conf /\ conf[key] = value

\* configuration[key] == value, a missing key reading as None
EqualsOrNone(conf, key, value) ==
    (IF key \in DOMAIN conf THEN conf[key] ELSE None) = value

\* C3 as stated: config.when resolves iff every expected key is present in
\* the configuration with the expected value; a missing key equals nothing.
C3_Original ==
    (Returned /\ last.variant = "when") =>
        (last.result = "resolved" <=>
            \A i \in DOMAIN last.call.kwargs :
                EqualsPresent(configuration, last.call.kwargs[i][1],
                              last.call.kwargs[i][2]))

\* C3 amended: config.when resolves (the function goes on to node generation)
\* iff configuration.get(key) == value for every pair, a missing key reading
\* as None; otherwise the function is absent.
C3_WhenResolvesIffAllEqual ==
    (Returned /\ last.variant = "when") =>
        /\ last.result = "resolved" <=>
              \A i \in DOMAIN last.call.kwargs :
                  EqualsOrNone(configuration, last.call.kwargs[i][1],
                               last.call.kwargs[i][2])
        /\ last.result = "resolved" <=> pc = "generate"
        /\ last.result = "absent" <=> pc = "absent"

\* config.when(k=None) resolved under a configuration without the key k
C3_Witness ==
    /\ Resolved /\ last.variant = "when"
    /\ \E i \in DOMAIN last.call.kwargs :
          /\ last.call.kwargs[i][1] \notin DOMAIN configuration
          /\ last.call.kwargs[i][2] = None
    /\ \E i \in DOMAIN last.call.kwargs :
          last.call.kwargs[i][1] \in DOMAIN configuration

\* membership of configuration[key] in a given list, a missing key reading as None
MemberOf(conf, key, group) ==
    \E v \in Range(group[2]) : v = (IF key \in DOMAIN conf THEN conf[key] ELSE None)

GivenSets(pairs) == \A i \in DOMAIN pairs : pairs[i][2][1] = "list"

\* C9: when_not / when_in / when_not_in resolve iff for every key given to the
\* decorator configuration[key] is, respectively, not equal to the value / a
\* member of the given set / not a member of the given set; otherwise resolve
\* returns absent.  (Validation of the function name has passed.)
C9_OtherVariantsResolveIff ==
    /\ (last.op = "resolve" /\ last.variant = "when_not"
            /\ ~EndsWithDunder(last.fn.name)) =>
          /\ Returned
          /\ last.result = "resolved" <=>
                \A i \in DOMAIN last.dec.pairs :
                    ~EqualsOrNone(configuration, last.dec.pairs[i][1],
                                  last.dec.pairs[i][2])
    /\ (last.op = "resolve" /\ last.variant = "when_in"
            /\ ~EndsWithDunder(last.fn.name)) =>
          /\ Returned
          /\ last.result = "resolved" <=>
                \A i \in DOMAIN last.dec.pairs :
                    MemberOf(configuration, last.dec.pairs[i][1],
                             last.dec.pairs[i][2])
    /\ (last.op = "resolve" /\ last.variant = "when_not_in"
            /\ GivenSets(last.dec.pairs) /\ ~EndsWithDunder(last.fn.name)) =>
          /\ Returned
          /\ last.result = "resolved" <=>
                \A i \in DOMAIN last.dec.pairs :
                    ~MemberOf(configuration, last.dec.pairs[i][1],
                              last.dec.pairs[i][2])

\* when_not_in given two keys: one passes its test, the other fails it, absent
C9_Witness ==
    /\ last.op = "resolve" /\ last.variant = "when_not_in"
    /\ last.result = "absent"
    /\ Len(last.dec.pairs) = 2 /\ GivenSets(last.dec.pairs)
    /\ ~MemberOf(configuration, last.dec.pairs[1][1], last.dec.pairs[1][2])
    /\ MemberOf(configuration, last.dec.pairs[2][1], last.dec.pairs[2][2])

\* C10: the resolved name is the explicit `name` override of the call if one
\* was given, for each of when, when_not, when_in and when_not_in, and
\* otherwise the declared name up to its first double underscore.
C10_ResolvedName ==
    Resolved =>
        fn.name = IF last.call.name # None THEN last.call.name[2]
                  ELSE sanitize_function_name(last.fn.name)

\* C13: a function whose body has a statement other than an optional
\* docstring and a single no-op fails does.validate with
\* InvalidDecoratorException and the "is not empty" message, whatever the
\* replacing function is (the check comes before the checks on it).
C13_NonEmptyBodyRejected ==
    (last.op = "does" /\ fn.body # "pass") =>
        /\ err = "InvalidDecoratorException"
        /\ last.message = "is not empty"

\* C17: does.generate_node returns one node with the name, the declared
\* return type and the declared parameters (with their types) of the original
\* function, the replacing function as implementation, and the default tags
\* of the original function.
C17_DoesNode ==
    (last.op = "does" /\ last.result = "ok") =>
        /\ Len(nodes) = 1
        /\ nodes[1].name = fn.name
        /\ nodes[1].type = fn.ret
        /\ DOMAIN nodes[1].input_types = Range(fn.params)
        /\ \A key \in Range(fn.params) : nodes[1].input_types[key][1] = ParamType[key]
        /\ nodes[1].callable = last.dec.replacing_function
        /\ nodes[1].tags = get_default_tags(fn)
C17_Witness ==
    /\ last.op = "does" /\ last.result = "ok"
    /\ Len(fn.params) = 2
    /\ last.dec.replacing_function.ret # fn.ret

\* C14: config.resolve has no side effect on its inputs: a step of resolve,
\* whether it resolves or returns absent, leaves the function definition (its
\* declared name in particular) and the configuration as they were.
C14_ResolveLeavesInputs ==
    [][pc = "resolve" => (fn' = fn /\ configuration' = configuration)]_vars

\* the decorator of the other variant built from the same arguments
Opposite ==
    IF last.variant = "when" THEN when_not(last.call.name, last.call.kwargs)
    ELSE when(last.call.name, last.call.kwargs)

\* C18: config.when(**kv) and config.when_not(**kv) built from the same pairs
\* (at least one) filter opposite sets of configurations: under every
\* configuration exactly one of the two resolves.
C18_WhenNotIsOpposite ==
    (Returned /\ last.variant \in {"when", "when_not"} /\ last.call.kwargs # <<>>) =>
        (last.result = "resolved" <=> does_resolve(Opposite, configuration) # "True")

\* C19: after any sequence of expansions and of tag decorations that passed
\* validate, every node has the module tag with the value the default node
\* had, and every node returned by an expander has a tag map equal to the
\* tag map of the node it was expanded from, held in a separate dict.
C19_ModuleTagPreserved ==
    pc = "chain" =>
        /\ \A i \in DOMAIN nodes :
              /\ "module" \in DOMAIN nodes[i].tags
              /\ nodes[i].tags["module"] = Str(fn.module)
        /\ (last.op = "chain_expand" /\ last.result = "ok") =>
              \A j \in DOMAIN last.out :
                  /\ last.out[j].tags = last.in.tags
                  /\ last.out[j].tags_id # last.in.tags_id
C19_Witness ==
    /\ pc = "chain"
    /\ last.op = "chain_expand" /\ last.result = "ok"
    /\ Len(last.out) >= 2
    /\ "x" \in DOMAIN last.in.tags
    /\ tagged # <<>>

(***************************************************************************)
(* Specification of the resolution step.                                   *)
(***************************************************************************)
InitResolve ==
    /\ fn \in {f \in Fns : /\ f.params = <<"a">> /\ f.ret = "int"
                           /\ f.doc = <<>> /\ f.body = "pass"}
    /\ configuration \in Configurations
    /\ nodes = <<>>
    /\ pc = "resolve"
    /\ err = "none"
    /\ last = [op |-> "none"]
    /\ tagged = <<>>

NextResolve == When \/ WhenNot \/ WhenIn \/ WhenNotIn

SpecResolve == InitResolve /\ [][NextResolve]_vars

(***************************************************************************)
(* Specification of node generation and expansion for a function without   *)
(* a config decorator.                                                     *)
(***************************************************************************)
InitExpand ==
    /\ fn \in {f \in Fns : f.name = "f" /\ f.body = "pass"}
    /\ configuration = <<>>
    /\ nodes = <<>>
    /\ pc = "generate"
    /\ err = "none"
    /\ last = [op |-> "none"]
    /\ tagged = <<>>

NextExpand ==
    \/ Generate
    \/ ParameterizedInputs \/ ParametrizedInput \/ Parametrized
    \/ ExtractColumns \/ ExtractFields
    \/ Invoke

SpecExpand == InitExpand /\ [][NextExpand]_vars

(***************************************************************************)
(* Specification of tag decoration of the node of a function without other *)
(* decorators.                                                             *)
(***************************************************************************)
InitTag ==
    /\ fn \in {f \in Fns : /\ f.name = "f" /\ f.ret = "int"
                           /\ f.doc = <<>> /\ f.body = "pass"}
    /\ configuration = <<>>
    /\ nodes = <<DefaultNode(fn)>>
    /\ pc = "decorate"
    /\ err = "none"
    /\ last = [op |-> "generate", fn |-> fn]
    /\ tagged = <<>>

NextTag == Tag

SpecTag == InitTag /\ [][NextTag]_vars

(***************************************************************************)
(* Specification of node creation: the default creator or does.            *)
(***************************************************************************)
InitCreate ==
    /\ fn \in {f \in Fns : f.name = "f"}
    /\ configuration = <<>>
    /\ nodes = <<>>
    /\ pc = "generate"
    /\ err = "none"
    /\ last = [op |-> "init"]
    /\ tagged = <<>>

NextCreate == Generate \/ Does

SpecCreate == InitCreate /\ [][NextCreate]_vars

(***************************************************************************)
(* Specification of stacked decorators on the default node of a function.  *)
(***************************************************************************)
InitChain ==
    /\ fn \in {f \in Fns : /\ f.name = "f" /\ f.params = <<"a", "b">>
                           /\ f.ret \in {"DataFrame", "dict"}
                           /\ f.doc = <<>> /\ f.body = "pass"}
    /\ configuration = <<>>
    /\ nodes = <<DefaultNode(fn)>>
    /\ pc = "chain"
    /\ err = "none"
    /\ last = [op |-> "generate", fn |-> fn]
    /\ tagged = <<>>

NextChain ==
    \/ \E e \in ChainParametrized : ChainExpand(e)
    \/ \E e \in ChainParametrizedInput : ChainExpand(e)
    \/ \E e \in ChainParameterizedInputs : ChainExpand(e)
    \/ \E e \in ChainExtractColumns : ChainExpand(e)
    \/ \E e \in ChainExtractFields : ChainExpand(e)
    \/ ChainTag

SpecChain == InitChain /\ [][NextChain]_vars

====
